---- MODULE Spec2Model ----
(***************************************************************************)
(* WPA2 4-Way Handshake: the Authenticator (entities/AccessPoint.py), the  *)
(* pseudo-random function (pseudorandom.py), and the Supplicant and the    *)
(* shared Entity base (entities/Client.py, entities/Entity.py), which are  *)
(* modelled after spec.md sections 3, 4.2 and 4.4.                         *)
(*                                                                         *)
(* Python values are records [kind, val]: kind is the Python type ("bytes" *)
(* or "str"), "absent" for an attribute that was never assigned, or the    *)
(* name of the exception an expression raised; val is the sequence of the  *)
(* value's symbols.  Random nonces and HMAC digest bytes are symbols:      *)
(* fresh nonces are pairwise distinct, a digest byte is named by the key,  *)
(* the message and its index in the digest.                                *)
(***************************************************************************)
EXTENDS Integers, Sequences, FiniteSets, TLC

VARIABLES
    ap,         \* the AccessPoint object's attributes
    client,     \* the Client object's attributes
    wire,       \* the latest message of each kind that was returned by a send_*
    out,        \* the Authenticator's last call: operation, argument, exception, return value
    cout,       \* the Supplicant's last call
    obs,        \* observations of the Authenticator's past calls
    enc,        \* the plaintext/ciphertext pairs of the last two send_message calls
    run,        \* position of the calls made so far in the script of tests/test_krackattack.py
    prf_call    \* one prf invocation: arguments and result

vars == <<ap, client, wire, out, cout, obs, enc, run, prf_call>>

-----------------------------------------------------------------------------
(* Bounds of the model *)

MaxCounter == 3
MaxNonce == 2
MaxPlainLen == 1
MaxPos == 2
MaxPrfBits == 170
NegPrfBits == 9

-----------------------------------------------------------------------------
(* Python values *)

Bytes(s) == [kind |-> "bytes", val |-> s]
Str(s) == [kind |-> "str", val |-> s]
Absent == [kind |-> "absent", val |-> <<>>]
Raised(e) == [kind |-> e, val |-> <<>>]

IsValue(x) == x.kind \in {"bytes", "str"}
IsRaised(x) == x.kind \notin {"bytes", "str", "absent"}

\* x + y on bytes/str operands: same type, or TypeError; an exception raised
\* while evaluating an operand propagates.
Concat(x, y) ==
    IF IsRaised(x) THEN x
    ELSE IF IsRaised(y) THEN y
    ELSE IF x.kind = y.kind /\ IsValue(x) THEN [kind |-> x.kind, val |-> x.val \o y.val]
    ELSE Raised("TypeError")

\* str(i) for a block counter i
StrOfInt(i) == Str(<< <<"int", i>> >>)

\* x.encode(): defined on str only
Encode(x) ==
    IF IsRaised(x) THEN x
    ELSE IF x.kind = "str" THEN Bytes(x.val)
    ELSE Raised("AttributeError")

\* Python's s[:n]
SlicePrefix(s, n) ==
    LET m == IF n >= 0 THEN (IF n < Len(s) THEN n ELSE Len(s))
             ELSE (IF Len(s) + n > 0 THEN Len(s) + n ELSE 0)
    IN  SubSeq(s, 1, m)

-----------------------------------------------------------------------------
(* pseudorandom.py *)

DigestBytes == 20
BlockBits == 160
BitsPerByte == 8

hmac_sha1(key, message) ==
    IF IsRaised(message) THEN message
    ELSE IF key.kind # "bytes" \/ message.kind # "bytes" THEN Raised("TypeError")
    ELSE Bytes([j \in 1..DigestBytes |-> <<"hmac", key.val, message.val, j>>])

PrfBlockCount(L) ==
    LET n == (L + (BlockBits - 1)) \div BlockBits IN IF n > 0 THEN n ELSE 0

PrfBlock(k, a, b, i) == hmac_sha1(k, Encode(Concat(Concat(a, b), StrOfInt(i))))

RECURSIVE PrfJoin(_, _, _, _, _)
PrfJoin(k, a, b, i, n) ==
    IF i >= n THEN Bytes(<<>>)
    ELSE LET blk == PrfBlock(k, a, b, i)
         IN  IF IsRaised(blk) THEN blk ELSE Concat(blk, PrfJoin(k, a, b, i + 1, n))

PrfBytesRequested(L) == L \div BitsPerByte

prf(k, a, b, L) ==
    LET R == PrfJoin(k, a, b, 0, PrfBlockCount(L))
    IN  IF IsRaised(R) THEN R ELSE Bytes(SlicePrefix(R.val, PrfBytesRequested(L)))

-----------------------------------------------------------------------------
(* Messages: the dictionaries exchanged by the two state machines.  A field *)
(* a message kind does not carry is Absent; missing is the set of the keys   *)
(* ("r", "SNonce") that the receiving handler reads and the dictionary lacks.*)

Msg(name, nonce, gtk, r) ==
    [name |-> name, nonce |-> nonce, gtk |-> gtk, r |-> r, missing |-> {}]
NoMsg == Msg("none", Absent, Absent, 0)

\* A dictionary built without one key.
Without(m, key) == [m EXCEPT !.missing = @ \cup {key}]

\* message[key] returns when the key is there and raises KeyError otherwise.
HasKeyAlways(m, key) == TRUE
HasKey(m, key) == key \notin m.missing

\* generate_nonce: the value the random source returns to entity `who` on its
\* draw number k; no two draws return the same value.
NonceOf(who, k) == Bytes(<< <<"nonce", who * (MaxNonce + 2) + k>> >>)
NextNonce(self) == NonceOf(self.id, self.draws + 1)
\* Values only a third party forging a message would supply.
ForgedNonce == Bytes(<< <<"nonce", 0>> >>)
ForgedGtk == Bytes(<< <<"gtk", 0>> >>)

\* The replay counters a forged message carries to an entity whose counter is
\* c: zero, the entity's own value, and one more than it.
ForgedCounters(c) == {0, c, c + 1}

-----------------------------------------------------------------------------
(* entities/AccessPoint.py *)

AP_MAC == << <<"mac", 1>> >>
CLIENT_MAC == << <<"mac", 2>> >>
PMK == Bytes(<< <<"pmk", 0>> >>)
GMK == Bytes(<< <<"gmk", 0>> >>)
GroupKeyLabel == Bytes(<< <<"label", 1>> >>)
GtkBits == 256

\* AccessPoint.__init__ on top of Entity.__init__: anonce, snonce and gtk are
\* first assigned by the handshake methods.
APInit(mac) ==
    [id |-> 1, draws |-> 0,
     pmk |-> PMK, mac |-> mac, gmk |-> GMK, replay_counter |-> 0,
     nonce |-> Absent, ptk |-> Absent,
     anonce |-> Absent, snonce |-> Absent, gtk |-> Absent]

\* The assertion of handle_message_2 and handle_message_4.
ReplayCheckLoose(r, counter) == r <= counter + 1
ReplayCheck(r, counter) == r <= counter

\* The Authenticator after a handler raised in its first statement, the
\* assert that reads message["r"], or on reading message2["SNonce"]: nothing
\* was assigned before.
RejectedKeepsSNonce(self, message) == [self EXCEPT !.snonce = message.nonce]
Rejected(self, message) == self

\* The exception handle_message_2 raises before it assigns anything, "none"
\* when it gets as far as the assignment of snonce.
Message2Error(message2, counter) ==
    IF ~HasKey(message2, "r") THEN "KeyError"
    ELSE IF ~ReplayCheck(message2.r, counter) THEN "AssertionError"
    ELSE IF ~HasKey(message2, "SNonce") THEN "KeyError"
    ELSE "none"

Message4Error(message4, counter) ==
    IF ~HasKey(message4, "r") THEN "KeyError"
    ELSE IF ~ReplayCheck(message4.r, counter) THEN "AssertionError"
    ELSE "none"

\* generate_gtk, given the nonce generate_nonce returned
generate_gtk(self, gnonce) ==
    LET ctx == Concat(self.mac, gnonce)
    IN  IF IsRaised(ctx) THEN ctx ELSE prf(self.gmk, GroupKeyLabel, ctx, GtkBits)

Max(a, b) == IF a >= b THEN a ELSE b

\* What is recorded of a call: the operation, its argument, the replay counter
\* of the called entity and the observations before the call, the exception
\* raised ("none" when it returned) and the value returned.
Called(op, arg, ctr, exc, ret) ==
    [op |-> op, arg |-> arg, ctr |-> ctr, before |-> obs, exc |-> exc, ret |-> ret]

\* attempt: "open" from send_message_1 until a handle_message_4 returns, then
\* "done"; m2_checked: a Message 2 passed the replay check since the last
\* send_message_1; max_r: the largest r the Authenticator has emitted; m3_gtk:
\* the gtk of the last Message 3 emitted since a Message 2 last passed the check.
ObsInit ==
    [attempt |-> "none", m2_checked |-> FALSE, max_r |-> 0, m3_gtk |-> Absent]

\* The script of tests/test_krackattack.py (steps 1-7 and 9-12) and the
\* delivery of Message 4 (step 8).  A call continues the script when it is the
\* script's next call and consumes the message the counterpart just produced.
RunOff == [at |-> 0, st |-> "off"]
RunStep(from, to, scripted, exc) ==
    IF run.st = "on" /\ run.at \in from /\ scripted
    THEN [at |-> to, st |-> IF exc = "none" THEN "on" ELSE "raised"]
    ELSE RunOff

send_message_1 ==
    /\ ap.replay_counter < MaxCounter
    /\ ap.draws < MaxNonce
    /\ LET n == NextNonce(ap)
           r == ap.replay_counter + 1
           m == Msg("M1", n, Absent, r)
       IN  /\ ap' = [ap EXCEPT !.nonce = n, !.anonce = n, !.replay_counter = r,
                               !.draws = @ + 1]
           /\ wire' = [wire EXCEPT !.m1 = m]
           /\ out' = Called("send_message_1", NoMsg, ap.replay_counter, "none", m)
           /\ obs' = [obs EXCEPT !.attempt = "open", !.m2_checked = FALSE,
                                 !.max_r = Max(obs.max_r, r)]
           /\ run' = RunStep({0}, 1, TRUE, "none")
    /\ UNCHANGED <<client, cout, enc, prf_call>>

Msg2Inputs ==
    {m \in {wire.m2} : m.name = "M2"}
        \cup {Msg("M2", ForgedNonce, Absent, r) : r \in ForgedCounters(ap.replay_counter)}
        \cup {Without(Msg("M2", ForgedNonce, Absent, 0), "r")}
        \cup {Without(Msg("M2", Absent, Absent, r), "SNonce") :
                 r \in ForgedCounters(ap.replay_counter)}

handle_message_2 ==
    \E message2 \in Msg2Inputs :
        /\ IF Message2Error(message2, ap.replay_counter) # "none"
           THEN /\ ap' = Rejected(ap, message2)
                /\ out' = Called("handle_message_2", message2, ap.replay_counter,
                                 Message2Error(message2, ap.replay_counter), NoMsg)
                /\ run' = RunStep({3}, 4, message2 = wire.m2,
                                  Message2Error(message2, ap.replay_counter))
                /\ UNCHANGED obs
           ELSE /\ ap.draws < MaxNonce
                /\ LET gnonce == NextNonce(ap)
                       g == generate_gtk(ap, gnonce)
                       exc == IF IsRaised(g) THEN g.kind ELSE "none"
                   IN  /\ ap' = [ap EXCEPT !.snonce = message2.nonce,
                                           !.nonce = gnonce, !.draws = @ + 1,
                                           !.gtk = IF IsRaised(g) THEN @ ELSE g]
                       /\ out' = Called("handle_message_2", message2,
                                        ap.replay_counter, exc, NoMsg)
                       /\ run' = RunStep({3}, 4, message2 = wire.m2, exc)
                /\ obs' = [obs EXCEPT !.m2_checked = TRUE, !.m3_gtk = Absent]
        /\ UNCHANGED <<client, wire, cout, enc, prf_call>>

send_message_3 ==
    /\ ap.replay_counter < MaxCounter
    /\ LET r == ap.replay_counter + 1
           m == Msg("M3", Absent, ap.gtk, r)
       IN  /\ ap' = [ap EXCEPT !.replay_counter = r]
           /\ IF ap.gtk.kind = "absent"
              THEN /\ out' = Called("send_message_3", NoMsg, ap.replay_counter,
                                    "AttributeError", NoMsg)
                   /\ run' = RunStep({4, 7}, IF run.at = 4 THEN 5 ELSE 9, TRUE,
                                     "AttributeError")
                   /\ UNCHANGED <<wire, obs>>
              ELSE /\ out' = Called("send_message_3", NoMsg, ap.replay_counter, "none", m)
                   /\ run' = RunStep({4, 7}, IF run.at = 4 THEN 5 ELSE 9, TRUE, "none")
                   /\ obs' = [obs EXCEPT !.max_r = Max(obs.max_r, r), !.m3_gtk = ap.gtk]
                   /\ wire' = [wire EXCEPT !.m3 = m]
    /\ UNCHANGED <<client, cout, enc, prf_call>>

Msg4Inputs ==
    {m \in {wire.m4} : m.name = "M4"}
        \cup {Msg("M4", Absent, Absent, r) : r \in ForgedCounters(ap.replay_counter)}
        \cup {Without(Msg("M4", Absent, Absent, 0), "r")}

handle_message_4 ==
    \E message4 \in Msg4Inputs :
        LET exc == Message4Error(message4, ap.replay_counter)
            ok == exc = "none"
        IN  /\ out' = Called("handle_message_4", message4, ap.replay_counter, exc, NoMsg)
            /\ run' = RunStep({7}, 8, message4 = wire.m4, exc)
            /\ obs' = [obs EXCEPT !.attempt = IF ok /\ @ = "open" THEN "done" ELSE @]
            /\ UNCHANGED <<ap, client, wire, cout, enc, prf_call>>

-----------------------------------------------------------------------------
(* Entity and Client: the shared base and the Supplicant, after spec.md     *)
(* sections 3, 4.2 and 4.4.                                                 *)

PairwiseLabel == Str(<< <<"label", 2>> >>)
PtkBits == 16

\* The canonical order of two MACs or two nonces: by the symbol's number.
Ordered(x, y) == IF x[1][2] <= y[1][2] THEN x \o y ELSE y \o x

derive_ptk(self, peer_nonce) ==
    prf(self.pmk, PairwiseLabel,
        Str(Ordered(self.mac.val, self.ap_mac.val) \o Ordered(self.nonce.val, peer_nonce.val)),
        PtkBits)

ClientInit(mac, ap_mac) ==
    [id |-> 2, draws |-> 0,
     pmk |-> PMK, mac |-> mac, ap_mac |-> ap_mac, replay_counter |-> 0,
     nonce |-> Absent, anonce |-> Absent, ptk |-> Absent, gtk |-> Absent,
     pos |-> 0, state |-> "INIT"]

\* Bytes of application data are sets of bits, keystream bytes are symbols named
\* by the key and the position; exclusive-or is the symmetric difference.
Bit(i) == <<"bit", <<>>, i>>
KeystreamByte(key, position) == {<<"ks", key.val, position>>}
XorByte(x, y) == (x \ y) \cup (y \ x)
Xor(s, t) == [i \in 1..Len(s) |-> XorByte(s[i], t[i])]

PlainBytes == {{Bit(0)}, {Bit(1)}}
Plaintexts == UNION {[1..n -> PlainBytes] : n \in 1..MaxPlainLen}

\* A successful handle_message_3 installs the key: the keystream position
\* starts over.
ResetPositionKeep(position) == position
ResetPosition(position) == 0

\* send_message advances the keystream position by the plaintext length.
AdvanceNone(position, n) == position
Advance(position, n) == position + n

encrypt(self, plaintext) ==
    [i \in 1..Len(plaintext) |->
        XorByte(plaintext[i], KeystreamByte(self.ptk, self.pos + (i - 1)))]

\* What an observer of the channel keeps of the last two send_message calls:
\* of the last one (last) the plaintext m, the ciphertext c, the first keystream
\* position and the length; of the one before (prev) the keystream m XOR c it
\* recovered from the known plaintext, the first position and the length;
\* whether a handle_message_3 returned between the two (between) or since the
\* last (since).
NoEnc == [m |-> <<>>, c |-> <<>>, start |-> 0, n |-> 0]
NoKeystream == [ks |-> <<>>, start |-> 0, n |-> 0]
EncInit == [prev |-> NoKeystream, last |-> NoEnc, between |-> FALSE, since |-> FALSE]

Msg1Inputs ==
    {m \in {wire.m1} : m.name = "M1"} \cup {Msg("M1", ForgedNonce, Absent, 1)}

handle_message_1 ==
    \E message1 \in Msg1Inputs :
        /\ client.state = "INIT"
        /\ client.draws < MaxNonce
        /\ LET snonce == NextNonce(client)
               c1 == [client EXCEPT !.anonce = message1.nonce, !.nonce = snonce,
                                    !.draws = @ + 1]
           IN  client' = [c1 EXCEPT !.ptk = derive_ptk(c1, message1.nonce),
                                    !.state = "READY_M2"]
        /\ cout' = Called("handle_message_1", message1, client.replay_counter, "none", NoMsg)
        /\ run' = RunStep({1}, 2, message1 = wire.m1, "none")
        /\ UNCHANGED <<ap, wire, out, obs, enc, prf_call>>

send_message_2 ==
    /\ client.state = "READY_M2"
    /\ LET r == client.replay_counter + 1
           m == Msg("M2", client.nonce, Absent, r)
       IN  /\ client' = [client EXCEPT !.replay_counter = r, !.state = "AWAIT_M3"]
           /\ wire' = [wire EXCEPT !.m2 = m]
           /\ cout' = Called("send_message_2", NoMsg, client.replay_counter, "none", m)
    /\ run' = RunStep({2}, 3, TRUE, "none")
    /\ UNCHANGED <<ap, out, obs, enc, prf_call>>

Msg3Inputs ==
    {m \in {wire.m3} : m.name = "M3"}
        \cup {Msg("M3", Absent, ForgedGtk, r) : r \in ForgedCounters(client.replay_counter)}

handle_message_3 ==
    \E message3 \in Msg3Inputs :
        /\ client.state \in {"AWAIT_M3", "READY_M4", "ESTABLISHED"}
        /\ LET ok == message3.r >= client.replay_counter
               exc == IF ok THEN "none" ELSE "ReplayError"
           IN  /\ client' = IF ok
                            THEN [client EXCEPT !.gtk = message3.gtk,
                                     !.pos = ResetPosition(@),
                                     !.state = IF @ = "ESTABLISHED" THEN @ ELSE "READY_M4"]
                            ELSE client
               /\ enc' = IF ok THEN [enc EXCEPT !.since = TRUE] ELSE enc
               /\ cout' = Called("handle_message_3", message3, client.replay_counter,
                                 exc, NoMsg)
               /\ run' = RunStep({5, 10}, IF run.at = 5 THEN 6 ELSE 11,
                                 message3 = wire.m3, exc)
        /\ UNCHANGED <<ap, wire, out, obs, prf_call>>

send_message_4 ==
    /\ client.state = "READY_M4"
    /\ LET r == client.replay_counter + 1
           m == Msg("M4", Absent, Absent, r)
       IN  /\ client' = [client EXCEPT !.replay_counter = r, !.state = "ESTABLISHED"]
           /\ wire' = [wire EXCEPT !.m4 = m]
           /\ cout' = Called("send_message_4", NoMsg, client.replay_counter, "none", m)
    /\ run' = RunStep({6}, 7, TRUE, "none")
    /\ UNCHANGED <<ap, out, obs, enc, prf_call>>

send_message ==
    \E plaintext \in Plaintexts :
        /\ IF client.ptk.kind = "absent"
           THEN /\ cout' = Called("send_message", NoMsg, client.replay_counter,
                                  "KeyNotInstalledError", NoMsg)
                /\ run' = RunOff
                /\ UNCHANGED <<client, enc>>
           ELSE /\ client.state = "ESTABLISHED"
                /\ client.pos + Len(plaintext) <= MaxPos
                /\ LET c == encrypt(client, plaintext)
                       rec == [m |-> plaintext, c |-> c, start |-> client.pos,
                               n |-> Len(plaintext)]
                   IN  /\ client' = [client EXCEPT !.pos = Advance(@, Len(plaintext))]
                       /\ enc' = [prev |-> [ks |-> Xor(enc.last.m, enc.last.c),
                                           start |-> enc.last.start, n |-> enc.last.n],
                                  last |-> rec,
                                  between |-> enc.since, since |-> FALSE]
                       /\ cout' = Called("send_message", NoMsg, client.replay_counter,
                                         "none", NoMsg)
                       /\ run' = RunStep({9, 11}, IF run.at = 9 THEN 10 ELSE 12,
                                         run.at = 9 \/ Len(plaintext) = enc.last.n, "none")
        /\ UNCHANGED <<ap, wire, out, obs, prf_call>>

-----------------------------------------------------------------------------
(* The handshake: both entities built with the same pmk, any interleaving   *)
(* of their operations, messages delivered or forged.                       *)

MacKinds == {"bytes", "str"}
NoCall == [op |-> "none", arg |-> NoMsg, ctr |-> 0, before |-> ObsInit,
           exc |-> "none", ret |-> NoMsg]
WireInit == [m1 |-> NoMsg, m2 |-> NoMsg, m3 |-> NoMsg, m4 |-> NoMsg]
PrfIdle == [k |-> Absent, a |-> Absent, b |-> Absent, L |-> 0, done |-> FALSE,
            result |-> Absent]

Init ==
    /\ \E kind \in MacKinds :
          /\ ap = APInit([kind |-> kind, val |-> AP_MAC])
          /\ client = ClientInit([kind |-> kind, val |-> CLIENT_MAC],
                                 [kind |-> kind, val |-> AP_MAC])
    /\ wire = WireInit
    /\ out = NoCall
    /\ cout = NoCall
    /\ obs = ObsInit
    /\ enc = EncInit
    /\ run = [at |-> 0, st |-> "on"]
    /\ prf_call = PrfIdle

NextAP ==
    \/ send_message_1
    \/ handle_message_2
    \/ send_message_3
    \/ handle_message_4

NextClient ==
    \/ handle_message_1
    \/ send_message_2
    \/ handle_message_3
    \/ send_message_4
    \/ send_message

Next == NextAP \/ NextClient

Spec == Init /\ [][Next]_vars

\* The two entities share no state: each one alone, with every message it can
\* be handed, delivered or forged.
SpecAP == Init /\ [][NextAP]_vars
SpecClient == Init /\ [][NextClient]_vars

-----------------------------------------------------------------------------
(* prf as a function of its arguments *)

PrfKeys == {GMK}
PrfLabels == {GroupKeyLabel, PairwiseLabel}
PrfContexts == {Bytes(AP_MAC), Str(AP_MAC)}
PrfLengths == (0 - NegPrfBits)..MaxPrfBits

InitPrf ==
    /\ ap = APInit(Bytes(AP_MAC))
    /\ client = ClientInit(Bytes(CLIENT_MAC), Bytes(AP_MAC))
    /\ wire = WireInit
    /\ out = NoCall
    /\ cout = NoCall
    /\ obs = ObsInit
    /\ enc = EncInit
    /\ run = RunOff
    /\ \E k \in PrfKeys, a \in PrfLabels, b \in PrfContexts, L \in PrfLengths :
          prf_call = [k |-> k, a |-> a, b |-> b, L |-> L, done |-> FALSE,
                      result |-> Absent]

prf_invoke ==
    /\ ~prf_call.done
    /\ prf_call' = [prf_call EXCEPT !.done = TRUE,
                                    !.result = prf(prf_call.k, prf_call.a, prf_call.b,
                                                   prf_call.L)]
    /\ UNCHANGED <<ap, client, wire, out, cout, obs, enc, run>>

NextPrf == prf_invoke

SpecPrf == InitPrf /\ [][NextPrf]_vars

-----------------------------------------------------------------------------
(* Properties *)

CeilDiv(a, b) == (a + (b - 1)) \div b

\* The keystream an observer recovers from the earlier of the last two
\* send_message calls, and what it makes of the later ciphertext with it.
RecoveredKeystream == enc.prev.ks
RecoveredPlaintext == Xor(enc.last.c, RecoveredKeystream)

\* C1: the eight calls of an in-order handshake between two entities built
\* with the same pmk (send_message_1, handle_message_1, send_message_2,
\* handle_message_2, send_message_3, handle_message_3, send_message_4,
\* handle_message_4, each handler consuming the message just produced) all
\* return, and after them both entities hold a derived ptk, the same one.
C1_HandshakePtkEqual ==
    /\ run.at <= 8 => run.st # "raised"
    /\ (run.st = "on" /\ run.at = 8) =>
          /\ ap.ptk.kind = "bytes"
          /\ client.ptk.kind = "bytes"
          /\ ap.ptk = client.ptk

\* C2: the script of the KRACK test runs to its end: the handshake completes,
\* the Authenticator's second send_message_3 returns a Message 3 with the same
\* gtk and a higher counter, the Supplicant accepts it after having sent
\* Message 4, and for the plaintexts m1, m2 of equal length encrypted before and
\* after it, send_message(m2) XOR (m1 XOR send_message(m1)) = m2.
C2_KrackRecovery ==
    /\ run.st # "raised"
    /\ (run.st = "on" /\ run.at >= 9) =>
          /\ wire.m3.gtk = ap.gtk
          /\ wire.m3.r = ap.replay_counter
    /\ (run.st = "on" /\ run.at = 12) =>
          /\ enc.between
          /\ RecoveredPlaintext = enc.last.m

\* C3: when the Supplicant, in the ESTABLISHED state, has encrypted two
\* plaintexts of equal length N > 0 with no handle_message_3 in between, the
\* second call used the N keystream positions that follow those of the first
\* (N..2N-1 when the first started at 0), the keystream recovered from the
\* first pair is not the one applied to the second plaintext, and the
\* XOR-recovery does not yield the second plaintext.
C3_NegativeControl ==
    (/\ client.state = "ESTABLISHED"
     /\ enc.prev.n > 0
     /\ enc.last.n = enc.prev.n
     /\ ~enc.between) =>
        /\ enc.last.start = enc.prev.start + enc.prev.n
        /\ \A i \in 1..enc.last.n :
              enc.last.c[i] = XorByte(enc.last.m[i],
                                KeystreamByte(client.ptk, enc.prev.start + enc.prev.n + (i - 1)))
        /\ RecoveredKeystream # Xor(enc.last.m, enc.last.c)
        /\ RecoveredPlaintext # enc.last.m

C3_Witness ==
    /\ client.state = "ESTABLISHED"
    /\ enc.prev.n > 0
    /\ enc.last.n = enc.prev.n
    /\ ~enc.between
    /\ enc.prev.start = 0

\* C4 as stated: handle_message_2 and handle_message_4 fail with a ReplayError
\* outcome whenever the message's r exceeds the Authenticator's replay_counter.
C4_ReplayErrorOutcome ==
    (/\ out.op \in {"handle_message_2", "handle_message_4"}
     /\ "r" \notin out.arg.missing
     /\ out.arg.r > out.ctr) => out.exc = "ReplayError"

\* C4, amended: handle_message_2 and handle_message_4 fail with the
\* AssertionError of their assert statement whenever the message's r exceeds
\* the Authenticator's replay_counter.
C4_AssertionOutcome ==
    (/\ out.op \in {"handle_message_2", "handle_message_4"}
     /\ "r" \notin out.arg.missing
     /\ out.arg.r > out.ctr) => out.exc = "AssertionError"

C4_Witness ==
    /\ out.op = "handle_message_4"
    /\ out.arg.r > out.ctr
    /\ out.ctr > 0
    /\ out.exc = "AssertionError"

\* C5: every send_message_3 called after a handle_message_2 whose message
\* passed the replay check emits a Message 3 whose r is greater than the r of
\* every message the Authenticator emitted before, and whose gtk is that of the
\* previous Message 3 when no handle_message_2 was processed in between.
C5_RetransmissionSameGtk ==
    (/\ out.op = "send_message_3"
     /\ out.before.m2_checked) =>
        /\ out.exc = "none"
        /\ out.ret.name = "M3"
        /\ out.ret.r > out.before.max_r
        /\ out.before.m3_gtk.kind # "absent" => out.ret.gtk = out.before.m3_gtk

\* C6: after handle_message_2 was called with a message whose replay counter
\* passes the check, the call has returned without error, snonce is the
\* message's SNonce and gtk is the 32-byte key
\* PRF(gmk, "GroupKeyExpansion", mac || gnonce, 256) for the gnonce drawn in
\* that call.
C6_Message2InstallsGtk ==
    (/\ out.op = "handle_message_2"
     /\ out.arg.missing = {}
     /\ ReplayCheck(out.arg.r, out.ctr)) =>
        /\ out.exc = "none"
        /\ ap.snonce = out.arg.nonce
        /\ ap.gtk.kind = "bytes"
        /\ Len(ap.gtk.val) = GtkBits \div BitsPerByte
        /\ ap.gtk = prf(ap.gmk, GroupKeyLabel, Concat(ap.mac, NonceOf(ap.id, ap.draws)),
                        GtkBits)

\* C7: from send_message_1 until a handle_message_4 completes, the
\* Authenticator's own nonce field is the ANonce that Message 1 carried.
C7_OwnNonceSetOnce ==
    obs.attempt = "open" =>
        /\ ap.anonce = wire.m1.nonce
        /\ ap.nonce = ap.anonce

\* C9: once handle_message_4 has succeeded, a later send_message_3 emits no
\* Message 3 and leaves replay_counter as it was.
C9_DoneIsTerminal ==
    (/\ out.op = "send_message_3"
     /\ out.before.attempt = "done") =>
        /\ out.ret.name # "M3"
        /\ ap.replay_counter = out.ctr

\* C10: for every output length L >= 1 a prf call that returns gives exactly
\* ceil(L/8) bytes, a prefix of the concatenated keyed-hash blocks for counter
\* 0, 1, 2, ..., and the ceil(L/160) blocks computed hold at least that many.
C10_PrfLength ==
    (/\ prf_call.done
     /\ prf_call.L >= 1
     /\ prf_call.result.kind = "bytes") =>
        LET R == PrfJoin(prf_call.k, prf_call.a, prf_call.b, 0,
                         CeilDiv(prf_call.L, BlockBits))
            n == CeilDiv(prf_call.L, BitsPerByte)
        IN  /\ Len(R.val) >= n
            /\ Len(prf_call.result.val) = n
            /\ prf_call.result.val = SubSeq(R.val, 1, n)

\* C11: a prf call with an output length Len <= 0 ends in an error and returns
\* no byte string.
C11_PrfRejectsNonPositive ==
    (/\ prf_call.done
     /\ prf_call.L <= 0) => IsRaised(prf_call.result)

\* C12 as stated: handle_message_2 given a message without "r" or without
\* "SNonce", and handle_message_4 given a message without "r", fail with
\* MalformedMessageError and leave the Authenticator's snonce, gtk and
\* replay_counter as they were.
C12_MalformedMessageError ==
    [][(/\ out'.op \in {"handle_message_2", "handle_message_4"}
        /\ out'.arg.missing # {}) =>
           /\ out'.exc = "MalformedMessageError"
           /\ ap'.snonce = ap.snonce
           /\ ap'.gtk = ap.gtk
           /\ ap'.replay_counter = ap.replay_counter]_vars

\* C12, amended: handle_message_2 and handle_message_4 given a message without
\* "r" fail with KeyError; handle_message_2 given a message with "r" and
\* without "SNonce" fails with AssertionError when r exceeds replay_counter and
\* with KeyError otherwise; in each case snonce, gtk and replay_counter are
\* left as they were.
C12_MissingFieldKeyError ==
    [][(/\ out'.op \in {"handle_message_2", "handle_message_4"}
        /\ out'.arg.missing # {}) =>
           /\ out'.exc = IF "r" \notin out'.arg.missing /\ out'.arg.r > out'.ctr
                         THEN "AssertionError" ELSE "KeyError"
           /\ ap'.snonce = ap.snonce
           /\ ap'.gtk = ap.gtk
           /\ ap'.replay_counter = ap.replay_counter]_vars

C12_Witness ==
    /\ out.op = "handle_message_2"
    /\ out.arg.missing = {"SNonce"}
    /\ out.arg.r = out.ctr
    /\ out.exc = "KeyError"
    /\ ap.snonce.kind = "bytes"

\* C14: a handle_message_3 that returned, also a later one carrying the same
\* gtk and another replay counter, left the keystream position at 0 and the ptk
\* the one derived in handle_message_1; a send_message that returned left the
\* position behind the bytes it encrypted; and of two plaintexts of equal
\* length, each encrypted first after a successful handle_message_3, the second
\* was encrypted with the keystream bytes of the first.
C14_ReinstallReusesKeystream ==
    /\ (cout.op = "handle_message_3" /\ cout.exc = "none") =>
          /\ client.pos = 0
          /\ client.ptk = derive_ptk(client, client.anonce)
    /\ (cout.op = "send_message" /\ cout.exc = "none") =>
          /\ client.pos = enc.last.start + enc.last.n
          /\ client.ptk = derive_ptk(client, client.anonce)
    /\ (/\ enc.between
        /\ enc.prev.n > 0
        /\ enc.prev.start = 0
        /\ enc.last.n = enc.prev.n) =>
          /\ enc.last.start = 0
          /\ Xor(enc.last.m, enc.last.c) = RecoveredKeystream
          /\ \A i \in 1..enc.last.n :
                XorByte(enc.last.m[i], enc.last.c[i]) = KeystreamByte(client.ptk, i - 1)

C14_Witness ==
    /\ cout.op = "send_message"
    /\ cout.exc = "none"
    /\ enc.between
    /\ enc.prev.n > 0
    /\ enc.prev.start = 0
    /\ enc.last.n = enc.prev.n
    /\ client.gtk = ForgedGtk
    /\ client.ptk.kind = "bytes"

\* C15: send_message_1 and send_message_3 each raise the Authenticator's
\* replay_counter by exactly 1 and return a message whose r is the new value;
\* handle_message_2 and handle_message_4 leave replay_counter as it was,
\* whether they return or raise.
C15_CounterMonotone ==
    /\ out.op \in {"send_message_1", "send_message_3"} =>
          /\ ap.replay_counter = out.ctr + 1
          /\ out.exc = "none"
          /\ out.ret.name \in {"M1", "M3"}
          /\ out.ret.r = ap.replay_counter
    /\ out.op \in {"handle_message_2", "handle_message_4"} =>
          ap.replay_counter = out.ctr

\* C16: in the in-order run of both entities, the Message 2 returned by
\* send_message_2 is accepted by handle_message_2 and the Message 4 returned by
\* send_message_4 is accepted by handle_message_4: each of the two calls
\* returns without an error.
C16_HonestRunAccepted ==
    (/\ run.st # "off"
     /\ run.at \in {4, 8}) =>
        /\ out.op = IF run.at = 4 THEN "handle_message_2" ELSE "handle_message_4"
        /\ out.arg = IF run.at = 4 THEN wire.m2 ELSE wire.m4
        /\ out.exc = "none"

\* C17: on an Authenticator whose replay counter started at 0,
\* handle_message_2 after one send_message_1 accepts a Message 2 carrying
\* r = 2, and handle_message_4 after the send_message_3 that follows accepts a
\* Message 4 carrying r = 3.
C17_DocumentedExample ==
    /\ (/\ out.op = "handle_message_2"
        /\ out.arg.missing = {}
        /\ out.ctr = 1
        /\ out.arg.r = 2) => out.exc = "none"
    /\ (/\ out.op = "handle_message_4"
        /\ out.arg.missing = {}
        /\ out.ctr = 2
        /\ out.arg.r = 3) => out.exc = "none"

\* C18: a handle_message_2 called with a message whose r does not exceed
\* replay_counter, after an earlier Message 2 passed the check in the same
\* attempt, returns without error, stores the message's SNonce and replaces gtk
\* with a newly derived key, which differs from the gtk of the Message 3 sent
\* before.
C18_RedeliveryRederivesGtk ==
    (/\ out.op = "handle_message_2"
     /\ out.arg.missing = {}
     /\ out.arg.r <= out.ctr
     /\ out.before.m2_checked) =>
        /\ out.exc = "none"
        /\ ap.snonce = out.arg.nonce
        /\ ap.gtk.kind = "bytes"
        /\ ap.gtk # out.before.m3_gtk

\* C19: a handle_message_2 that fails its replay-counter check leaves every
\* field of the Authenticator (snonce, gtk, anonce, nonce, replay_counter, the
\* number of nonces drawn) as it was, and so does every handle_message_4,
\* whether it returns or raises.
C19_RejectedLeavesUntouched ==
    [][(\/ out'.op = "handle_message_2" /\ out'.exc = "AssertionError"
        \/ out'.op = "handle_message_4") => ap' = ap]_vars

C19_Witness ==
    /\ out.op = "handle_message_2"
    /\ out.exc = "AssertionError"
    /\ out.arg.missing = {}
    /\ out.arg.r > ap.replay_counter
    /\ ap.snonce.kind = "bytes"
    /\ ap.nonce.kind = "bytes"

====
